---- MODULE Spec2Model ----
(***************************************************************************)
(* A model of zman.py, the ZOIA patch manager: the PatchFile record, the   *)
(* preference merge, the preferred-index report, the slot allocation done  *)
(* by copy_files, and the create_config / copy_files commands of main.     *)
(*                                                                         *)
(* A PatchFile is a record [full_path, name, active, preferred_index];     *)
(* preferred_index (Optional[int]) is the empty set for None and {k} for   *)
(* the integer k.  A cell of patch_order holds the position (1..Len) in    *)
(* patch_files of the PatchFile object stored there, or NoPatch for None.  *)
(***************************************************************************)
EXTENDS Integers, Sequences, FiniteSets, TLC

VARIABLES
    pc,                 \* position of the running function / command
    patch_files,        \* the PatchFile list a function is given
    verbose,            \* the verbose flag
    patch_order,        \* copy_files: the 64-cell slot table
    unordered_patches,  \* copy_files: the deque of entries awaiting a cell
    count,              \* copy_files: the capacity counter
    warned,             \* copy_files: "Hit patch limit" was printed
    err,                \* what ended the function or command early, or "none"
    dest,               \* the files of the destination directory
    override_patch_files, \* merge_patch_files: the override (saved) list
    merged,             \* merge_patch_files: the list returned
    index_map,          \* get_preferred_index_patches: the dict returned
    fs,                 \* the config files: path -> content
    args,               \* the parsed command line of main
    response,           \* what the user types at a prompt
    prompted,           \* main asked the user for confirmation
    dest_exists,        \* os.path.isdir(args.dest_dir)
    fs0,                \* the config files before the command ran
    written,            \* the config files create_config has written
    dest0,              \* the destination directory before the command ran
    exit_code           \* exit status of the command, -1 while it runs

copyVars == <<patch_order, unordered_patches, count, warned>>
mergeVars == <<override_patch_files, merged>>
mainVars == <<fs, args, response, prompted, dest_exists, fs0, written, dest0,
              exit_code>>

vars == <<pc, patch_files, verbose, err, dest, index_map, copyVars, mergeVars,
          mainVars>>

(***************************************************************************)
(* Bounds of the model.                                                    *)
(***************************************************************************)
MaxPrefix == 2

(***************************************************************************)
(* Program constants.                                                      *)
(***************************************************************************)
PageSize == 64
NoPatch == 0

Cells == 0 .. (PageSize - 1)

SeqsUpTo(S, n) == UNION {[1 .. k -> S] : k \in 0 .. n}

(***************************************************************************)
(* PatchFile                                                               *)
(***************************************************************************)
PatchFile(full_path, name, active, preferred_index) ==
    [full_path |-> full_path, name |-> name, active |-> active,
     preferred_index |-> preferred_index]

HasPref(pf) == pf.preferred_index # {}
PrefOf(pf) == CHOOSE k \in pf.preferred_index : TRUE

(***************************************************************************)
(* Python list indexing on the 64-element patch_order: an index in         *)
(* -64..-1 counts from the end, anything outside -64..63 raises IndexError.*)
(***************************************************************************)
IndexOk(k) == k >= 0 - PageSize /\ k < PageSize
ListIndex(k) == IF k < 0 THEN k + PageSize ELSE k

(***************************************************************************)
(* copy_files, first loop (lines 213-225): one iteration for the entry at  *)
(* position i.  st is [order, queue, count, warned, err, stop].            *)
(***************************************************************************)
HitLimitOff(cnt) == cnt >= PageSize
HitLimit(cnt) == cnt > PageSize

ClaimCellOverwrite(order, pf, i) == HasPref(pf)
ClaimCell(order, pf, i) ==
    HasPref(pf) /\ order[ListIndex(PrefOf(pf))] = NoPatch

ScanStep(st, pf, i, v) ==
    IF HitLimit(st.count)
    THEN [st EXCEPT !.warned = TRUE, !.stop = TRUE]
    ELSE IF ~pf.active
    THEN (IF v THEN [st EXCEPT !.err = "TypeError", !.stop = TRUE] ELSE st)
    ELSE IF HasPref(pf) /\ ~IndexOk(PrefOf(pf))
    THEN [st EXCEPT !.err = "IndexError", !.stop = TRUE]
    ELSE IF ClaimCell(st.order, pf, i)
    THEN [st EXCEPT !.order[ListIndex(PrefOf(pf))] = i, !.count = @ + 1]
    ELSE [st EXCEPT !.queue = Append(@, i), !.count = @ + 1]

RECURSIVE ScanLoop(_, _, _, _)
ScanLoop(pfs, v, i, st) ==
    IF i > Len(pfs) \/ st.stop THEN st
    ELSE ScanLoop(pfs, v, i + 1, ScanStep(st, pfs[i], i, v))

ScanStart ==
    [order |-> [c \in Cells |-> NoPatch], queue |-> <<>>, count |-> 1,
     warned |-> FALSE, err |-> "none", stop |-> FALSE]

(***************************************************************************)
(* copy_files, second loop (lines 227-231): cell i takes the head of the   *)
(* deque when it is empty; the loop breaks when the deque is empty.        *)
(***************************************************************************)
PopRight(q) == [head |-> q[Len(q)], rest |-> SubSeq(q, 1, Len(q) - 1)]
PopLeft(q) == [head |-> Head(q), rest |-> Tail(q)]

RECURSIVE FillLoop(_, _, _)
FillLoop(order, queue, i) ==
    IF i >= PageSize \/ queue = <<>> THEN [order |-> order, queue |-> queue]
    ELSE IF order[i] = NoPatch
    THEN FillLoop([order EXCEPT ![i] = PopLeft(queue).head],
                  PopLeft(queue).rest, i + 1)
    ELSE FillLoop(order, queue, i + 1)

(***************************************************************************)
(* copy_files, third loop (lines 233-240): every filled cell i is copied   *)
(* to "<i:03>_zoia_<name>" in the destination, replacing a file of that    *)
(* name.  A file of the destination is [hidden, index, name].              *)
(***************************************************************************)
CopyPath(i, pf) == [hidden |-> FALSE, index |-> i, name |-> pf.name]

WriteLoop(pfs, order, d) ==
    d \cup {CopyPath(i, pfs[order[i]]) : i \in {c \in Cells : order[c] # NoPatch}}

(***************************************************************************)
(* copy_files as a state machine: one action per loop of the function.     *)
(* An exception raised in the first loop ends the function before any cell *)
(* is filled or any file written.                                          *)
(***************************************************************************)
Scan ==
    /\ pc = "copy_start"
    /\ LET st == ScanLoop(patch_files, verbose, 1, ScanStart) IN
        /\ patch_order' = st.order
        /\ unordered_patches' = st.queue
        /\ count' = st.count
        /\ warned' = st.warned
        /\ err' = st.err
        /\ pc' = IF st.err = "none" THEN "scanned" ELSE "raised"
    /\ UNCHANGED <<patch_files, verbose, dest, index_map, mergeVars, mainVars>>

Fill ==
    /\ pc = "scanned"
    /\ LET r == FillLoop(patch_order, unordered_patches, 0) IN
        /\ patch_order' = r.order
        /\ unordered_patches' = r.queue
    /\ pc' = "filled"
    /\ UNCHANGED <<patch_files, verbose, count, warned, err, dest, index_map,
                   mergeVars, mainVars>>

Write ==
    /\ pc = "filled"
    /\ dest' = WriteLoop(patch_files, patch_order, dest)
    /\ pc' = "done"
    /\ UNCHANGED <<patch_files, verbose, err, index_map, copyVars, mergeVars,
                   mainVars>>

(***************************************************************************)
(* The lists copy_files is run on: up to MaxPrefix arbitrary entries, then *)
(* a run of active entries without preference (none, or enough to bring    *)
(* the list to the 64-entry page limit), then at most one more entry.      *)
(***************************************************************************)
Prefs == {{}, {0}, {63}, {0 - 1}, {PageSize}}
Kinds == [active : {TRUE}, preferred_index : Prefs]
             \cup [active : {FALSE}, preferred_index : {{}}]
Pads == {0, PageSize - 1, PageSize}
Suffixes == {<<>>} \cup {<<k>> : k \in Kinds}
Plain == [active |-> TRUE, preferred_index |-> {}]

NameAt(j) == IF j % 2 = 1 THEN "a.bin" ELSE "b.bin"

MkList(prefix, pad, suffix) ==
    LET ks == prefix \o [j \in 1 .. pad |-> Plain] \o suffix IN
    [j \in 1 .. Len(ks) |->
        PatchFile(j, NameAt(j), ks[j].active, ks[j].preferred_index)]

NoArgs == [action |-> "none"]

CopyIdle ==
    /\ patch_order = ScanStart.order
    /\ unordered_patches = <<>>
    /\ count = 1
    /\ warned = FALSE

MergeIdle ==
    /\ override_patch_files = <<>>
    /\ merged = <<>>

MainIdle ==
    /\ fs = <<>>
    /\ fs0 = <<>>
    /\ written = {}
    /\ args = NoArgs
    /\ response = ""
    /\ prompted = FALSE
    /\ dest_exists = TRUE
    /\ dest0 = {}
    /\ exit_code = 0 - 1

InitCopy ==
    /\ pc = "copy_start"
    /\ \E prefix \in SeqsUpTo(Kinds, MaxPrefix), pad \in Pads, suffix \in Suffixes :
           patch_files = MkList(prefix, pad, suffix)
    /\ verbose \in BOOLEAN
    /\ err = "none"
    /\ dest = {}
    /\ index_map = <<>>
    /\ CopyIdle
    /\ MergeIdle
    /\ MainIdle

NextCopy == Scan \/ Fill \/ Write

SpecCopy == InitCopy /\ [][NextCopy]_vars

(***************************************************************************)
(* merge_patch_files (lines 77-90).  override_paths is the dict built from *)
(* the override list: a later record replaces an earlier one of the same   *)
(* full_path.                                                              *)
(***************************************************************************)
OverridePaths(override) ==
    [p \in {override[i].full_path : i \in 1 .. Len(override)} |->
        override[CHOOSE i \in 1 .. Len(override) :
                    /\ override[i].full_path = p
                    /\ \A h \in (i + 1) .. Len(override) :
                          override[h].full_path # p]]

GetPfFresh(override_paths, pf) == pf
GetPf(override_paths, pf) ==
    IF pf.full_path \in DOMAIN override_paths
    THEN override_paths[pf.full_path] ELSE pf

MergePatchFiles(pfs, override) ==
    [i \in 1 .. Len(pfs) |-> GetPf(OverridePaths(override), pfs[i])]

Merge ==
    /\ pc = "merge_start"
    /\ merged' = MergePatchFiles(patch_files, override_patch_files)
    /\ pc' = "merged"
    /\ UNCHANGED <<patch_files, verbose, err, dest, index_map, copyVars,
                   override_patch_files, mainVars>>

MaxFresh == 2
MaxSaved == 2

MergePaths == {"p1.bin", "p2.bin"}
MergeKinds ==
    {PatchFile(p, p, k[1], k[2]) :
        p \in MergePaths, k \in {<<TRUE, {}>>, <<FALSE, {}>>, <<TRUE, {5}>>}}

InitMerge ==
    /\ pc = "merge_start"
    /\ patch_files \in SeqsUpTo(MergeKinds, MaxFresh)
    /\ override_patch_files \in SeqsUpTo(MergeKinds, MaxSaved)
    /\ merged = <<>>
    /\ verbose = FALSE
    /\ err = "none"
    /\ dest = {}
    /\ index_map = <<>>
    /\ CopyIdle
    /\ MainIdle

NextMerge == Merge

SpecMerge == InitMerge /\ [][NextMerge]_vars

(***************************************************************************)
(* get_preferred_index_patches (lines 137-144).  The test                  *)
(* "if patch_file.preferred_index" is Python truthiness: None and 0 are    *)
(* both false.  The dict is a function from its keys to lists of names.    *)
(***************************************************************************)
Truthy(preferred_index) == preferred_index # {} /\ preferred_index # {0}

IndexMapStep(m, pf) ==
    IF Truthy(pf.preferred_index)
    THEN LET k == PrefOf(pf) IN
         IF k \in DOMAIN m
         THEN [m EXCEPT ![k] = Append(@, pf.name)]
         ELSE [x \in DOMAIN m \cup {k} |->
                  IF x = k THEN <<pf.name>> ELSE m[x]]
    ELSE m

RECURSIVE IndexMapLoop(_, _, _)
IndexMapLoop(pfs, i, m) ==
    IF i > Len(pfs) THEN m
    ELSE IndexMapLoop(pfs, i + 1, IndexMapStep(m, pfs[i]))

GetPreferredIndexPatches(pfs) == IndexMapLoop(pfs, 1, <<>>)

Stats ==
    /\ pc = "stats_start"
    /\ index_map' = GetPreferredIndexPatches(patch_files)
    /\ pc' = "stats_done"
    /\ UNCHANGED <<patch_files, verbose, err, dest, copyVars, mergeVars,
                   mainVars>>

MaxStats == 3

StatsKinds ==
    {PatchFile(n, n, TRUE, k) : n \in {"a.bin", "b.bin"}, k \in {{}, {0}, {5}, {63}}}

InitStats ==
    /\ pc = "stats_start"
    /\ patch_files \in SeqsUpTo(StatsKinds, MaxStats)
    /\ index_map = <<>>
    /\ verbose = FALSE
    /\ err = "none"
    /\ dest = {}
    /\ CopyIdle
    /\ MergeIdle
    /\ MainIdle

NextStats == Stats

SpecStats == InitStats /\ [][NextStats]_vars

(***************************************************************************)
(* The commands of main (lines 243-277).  A config file is absent,         *)
(* malformed, or holds a list of PatchFile records.                        *)
(***************************************************************************)
Absent == [kind |-> "absent", data |-> <<>>]
Malformed == [kind |-> "malformed", data |-> <<>>]
Config(pfs) == [kind |-> "config", data |-> pfs]

IsFile(content) == content.kind # "absent"

\* get_patch_files_from_config (lines 107-124): open() raises on a missing
\* file, a parse failure prints and exits with status 1
GetPatchFilesFromConfig(content) ==
    CASE content.kind = "absent" -> [err |-> "FileNotFoundError", data |-> <<>>]
      [] content.kind = "malformed" -> [err |-> "ParseError", data |-> <<>>]
      [] OTHER -> [err |-> "none", data |-> content.data]

\* response.strip().lower() in ['y', 'yes'] (lines 254, 263)
StripLower(r) ==
    CASE r = " Yes " -> "yes"
      [] r = "Y" -> "y"
      [] OTHER -> r
SaidYes(r) == StripLower(r) \in {"y", "yes"}

\* delete_files_in_dir (lines 181-197): removes every file not starting with '.'
DeleteFilesInDir(d) == {f \in d : f.hidden}

\* copy_files (lines 199-240) as a whole
CopyFiles(pfs, d, v) ==
    LET st == ScanLoop(pfs, v, 1, ScanStart) IN
    IF st.err # "none" THEN [err |-> st.err, dest |-> d]
    ELSE [err |-> "none",
          dest |-> WriteLoop(pfs, FillLoop(st.order, st.queue, 0).order, d)]

\* the create_config branch of main (lines 244-257)
CreateConfigCommand ==
    /\ pc = "main"
    /\ args.action = "create_config"
    /\ LET inp == args.input_config
           out == args.output_config
           has_input == inp # ""
           baseline == IF has_input THEN GetPatchFilesFromConfig(fs[inp])
                       ELSE [err |-> "none", data |-> <<>>]
           asks == ~has_input /\ IsFile(fs[out]) /\ out # inp /\ ~args.force
           failure ==
               IF has_input /\ ~IsFile(fs[inp]) THEN "NoInputConfig"
               ELSE IF has_input /\ baseline.err # "none" THEN baseline.err
               ELSE IF asks /\ ~SaidYes(response) THEN "declined"
               ELSE "none"
           result == IF has_input
                     THEN MergePatchFiles(patch_files, baseline.data)
                     ELSE patch_files
       IN  /\ prompted' = asks
           /\ err' = failure
           /\ exit_code' = IF failure = "none" THEN 0 ELSE 1
           /\ fs' = IF failure = "none" THEN [fs EXCEPT ![out] = Config(result)]
                    ELSE fs
           /\ written' = IF failure = "none" THEN written \cup {out} ELSE written
           /\ merged' = IF failure = "none" THEN result ELSE merged
    /\ pc' = "exited"
    /\ UNCHANGED <<patch_files, verbose, dest, index_map, copyVars,
                   override_patch_files, args, response, dest_exists, fs0,
                   dest0>>

\* the copy_files branch of main (lines 259-270)
CopyFilesCommand ==
    /\ pc = "main"
    /\ args.action = "copy_files"
    /\ LET asks == dest_exists /\ ~args.force
           declined == asks /\ ~SaidYes(response)
           cleared == IF dest_exists THEN DeleteFilesInDir(dest) ELSE {}
           cfg == GetPatchFilesFromConfig(fs[args.config])
           copied == CopyFiles(cfg.data, cleared, verbose)
       IN  /\ prompted' = asks
           /\ dest_exists' = (dest_exists \/ ~declined)
           /\ err' = IF declined THEN "declined"
                     ELSE IF cfg.err # "none" THEN cfg.err
                     ELSE copied.err
           /\ dest' = IF declined THEN dest
                      ELSE IF cfg.err # "none" THEN cleared
                      ELSE copied.dest
           /\ patch_files' = IF declined THEN patch_files ELSE cfg.data
    /\ exit_code' = IF err' = "none" THEN 0 ELSE 1
    /\ pc' = "exited"
    /\ UNCHANGED <<verbose, index_map, copyVars, mergeVars, fs, args, response,
                   fs0, written, dest0>>

ConfigPaths == {"a.conf", "b.conf"}
Responses == {"y", " Yes ", "n", ""}
Scans ==
    {<<>>, <<PatchFile("p1.bin", "p1.bin", TRUE, {})>>,
     <<PatchFile("p1.bin", "p1.bin", TRUE, {}),
       PatchFile("p2.bin", "p2.bin", TRUE, {})>>}
Contents ==
    {Absent, Malformed,
     Config(<<PatchFile("p1.bin", "p1.bin", TRUE, {60})>>),
     Config(<<PatchFile("p1.bin", "p1.bin", FALSE, {}),
              PatchFile("p9.bin", "p9.bin", TRUE, {})>>)}
DestFiles ==
    {[hidden |-> TRUE, index |-> 0, name |-> ".DS_Store"],
     [hidden |-> FALSE, index |-> 0, name |-> "old.bin"],
     [hidden |-> FALSE, index |-> 60, name |-> "p1.bin"]}

CreateArgs ==
    [action : {"create_config"}, input_config : {""} \cup ConfigPaths,
     output_config : ConfigPaths, force : BOOLEAN]
CopyArgs == [action : {"copy_files"}, config : ConfigPaths, force : BOOLEAN]

InitMain ==
    /\ pc = "main"
    /\ fs \in [ConfigPaths -> Contents]
    /\ fs0 = fs
    /\ written = {}
    /\ response \in Responses
    /\ prompted = FALSE
    /\ exit_code = 0 - 1
    /\ err = "none"
    /\ index_map = <<>>
    /\ CopyIdle
    /\ MergeIdle
    /\ \/ /\ args \in CreateArgs
          /\ patch_files \in Scans
          /\ verbose = FALSE
          /\ dest_exists = FALSE
          /\ dest = {}
       \/ /\ args \in CopyArgs
          /\ patch_files = <<>>
          /\ verbose \in BOOLEAN
          /\ dest_exists \in BOOLEAN
          /\ dest \in (IF dest_exists THEN SUBSET DestFiles ELSE {{}})
    /\ dest0 = dest

NextMain == CreateConfigCommand \/ CopyFilesCommand

SpecMain == InitMain /\ [][NextMain]_vars

(***************************************************************************)
(* Vocabulary of the claims about copy_files, stated on the input list and *)
(* the slot table alone.  Ranks and Slots are computed once per state as   *)
(* tuples: Ranks[j] is the number of active entries among the first j, and *)
(* Slots[j] the cell holding entry j (NoSlot when it has none).            *)
(***************************************************************************)
Positions == 1 .. Len(patch_files)
Active(j) == patch_files[j].active
Pref(j) == PrefOf(patch_files[j])
Pinned(j) == HasPref(patch_files[j])

RECURSIVE RanksFrom(_, _)
RanksFrom(j, seen) ==
    IF j > Len(patch_files) THEN <<>>
    ELSE LET n == IF Active(j) THEN seen + 1 ELSE seen IN
         <<n>> \o RanksFrom(j + 1, n)
Ranks == RanksFrom(1, 0)
NumActive == Cardinality({j \in Positions : Active(j)})

\* entry j is one of the first min(n, 64) active entries of the list
FirstActive(rk, j) == Active(j) /\ rk[j] <= PageSize

NoSlot == 0 - 1
RECURSIVE SlotsFrom(_, _)
SlotsFrom(c, acc) ==
    IF c < 0 THEN acc
    ELSE SlotsFrom(c - 1, IF patch_order[c] = NoPatch THEN acc
                          ELSE [acc EXCEPT ![patch_order[c]] = c])
\* the lowest cell holding each entry
Slots == SlotsFrom(PageSize - 1, [j \in Positions |-> NoSlot])
Occupied == {c \in Cells : patch_order[c] # NoPatch}

ValidPrefs == \A j \in Positions : patch_files[j].preferred_index \subseteq Cells
Scanned == pc \in {"scanned", "filled", "done"}
Allocated == pc \in {"filled", "done"}

\* the cell a preferred_index selects in the 64-element Python list
CellOfPref(j) == IF Pref(j) < 0 THEN Pref(j) + PageSize ELSE Pref(j)
\* j, one of the first 64 active entries, is the first of them to select the
\* cell of its preferred_index (an active entry before j is itself one of
\* the first 64 active entries)
Claimer(rk, j) ==
    /\ Pinned(j)
    /\ FirstActive(rk, j)
    /\ \A i \in 1 .. (j - 1) :
          (Pinned(i) /\ Active(i)) => CellOfPref(i) # CellOfPref(j)
NonClaimer(rk, j) == FirstActive(rk, j) /\ ~Claimer(rk, j)

(***************************************************************************)
(* C1 (as stated), on the lists whose preferred_index values are all       *)
(* absent or in 0..63: whenever copy_files completes, every active entry E *)
(* with preferred_index = k such that no earlier entry of the list has     *)
(* preferred_index = k sits in cell k of the slot table.                   *)
(***************************************************************************)
C1_PinHonoured ==
    (Allocated /\ ValidPrefs) =>
        \A j \in Positions :
            (/\ Pinned(j)
             /\ Active(j)
             /\ Pref(j) \in Cells
             /\ \A i \in 1 .. (j - 1) :
                    patch_files[i].preferred_index # {Pref(j)})
            => patch_order[Pref(j)] = j

(***************************************************************************)
(* C1 (amended): whenever copy_files completes, every active entry E that  *)
(* is one of the first 64 active entries of the list and has               *)
(* preferred_index = k in 0..63, such that no earlier entry has            *)
(* preferred_index k or k - 64 (the negative index Python maps onto cell   *)
(* k), sits in cell k of the slot table.                                   *)
(***************************************************************************)
C1_PinHonouredWithinLimit ==
    Allocated =>
        LET rk == Ranks IN
        \A j \in Positions :
            (/\ Pinned(j)
             /\ FirstActive(rk, j)
             /\ Pref(j) \in Cells
             /\ \A i \in 1 .. (j - 1) :
                    /\ patch_files[i].preferred_index # {Pref(j)}
                    /\ patch_files[i].preferred_index # {Pref(j) - PageSize})
            => patch_order[Pref(j)] = j

\* copy_files has completed and an entry pinned to cell 63, preceded by other
\* entries one of which is pinned to cell 0, holds cell 63
C1_Witness ==
    /\ pc = "done"
    /\ \E j \in Positions :
          /\ j > 2
          /\ Active(j)
          /\ patch_files[j].preferred_index = {63}
          /\ \A i \in 1 .. (j - 1) :
                patch_files[i].preferred_index \in {{}, {0}}
          /\ \E i \in 1 .. (j - 1) : patch_files[i].preferred_index = {0}
          /\ patch_order[63] = j

(***************************************************************************)
(* C2: on a list whose preferred_index values are absent or in 0..63,      *)
(* copy_files (verbose off) completes; the entries in the slot table are   *)
(* exactly the first min(n, 64) active entries, each in exactly one cell;  *)
(* and the destination receives one file per placed entry.                 *)
(***************************************************************************)
C2_FirstActivePlaced ==
    ValidPrefs =>
        /\ (~verbose => pc # "raised")
        /\ Allocated =>
              LET rk == Ranks
                  sl == Slots
              IN  /\ \A c \in Occupied : FirstActive(rk, patch_order[c])
                  /\ \A j \in Positions : FirstActive(rk, j) => sl[j] # NoSlot
                  /\ \A c \in Occupied : sl[patch_order[c]] = c
        /\ pc = "done" => Cardinality(dest) = Cardinality(Occupied)

\* a valid list with an inactive entry and more than 64 active ones has been
\* copied: 64 files, and the last active entry has no cell
C2_Witness ==
    /\ pc = "done"
    /\ ValidPrefs
    /\ NumActive > PageSize
    /\ \E j \in Positions : ~Active(j)
    /\ Cardinality(dest) = PageSize
    /\ \E j \in Positions : Active(j) /\ Slots[j] = NoSlot

(***************************************************************************)
(* C4: when the first loop has ended the slot table holds exactly the      *)
(* entries that claimed their preferred cell, each in that cell, and none  *)
(* of the other considered entries; after the second loop the claimers     *)
(* are where they were, and the other considered entries occupy the lowest *)
(* cells left empty, ascending in input order: if A precedes B then        *)
(* slot(A) < slot(B), and every cell below slot(B) is occupied.            *)
(***************************************************************************)
C4_FifoFillAfterClaims ==
    Scanned =>
        LET rk == Ranks
            sl == Slots
        IN  /\ \A j \in Positions :
                  Claimer(rk, j) => patch_order[CellOfPref(j)] = j
            /\ pc = "scanned" =>
                  \A c \in Occupied : Claimer(rk, patch_order[c])
            /\ Allocated =>
                  \A b \in Positions :
                      NonClaimer(rk, b) =>
                          /\ sl[b] # NoSlot
                          /\ \A c \in 0 .. (sl[b] - 1) : patch_order[c] # NoPatch
                          /\ \A a \in 1 .. (b - 1) :
                                NonClaimer(rk, a) => sl[a] < sl[b]

\* an entry without preference and a later one that lost the contest for
\* cell 0 have been placed in cells 1 and 2, behind the holder of cell 0
C4_Witness ==
    /\ pc = "done"
    /\ \E a, b \in Positions :
          /\ a < b
          /\ Active(a) /\ ~Pinned(a)
          /\ Active(b) /\ patch_files[b].preferred_index = {0}
          /\ patch_order[0] \notin {NoPatch, a, b}
          /\ patch_order[1] = a
          /\ patch_order[2] = b

(***************************************************************************)
(* C7 (as stated): a list in which one of the considered active entries    *)
(* has a preferred_index outside 0..63 never gets a slot table: copy_files *)
(* ends in an error instead.                                               *)
(***************************************************************************)
C7_OutOfRangeRejected ==
    Scanned =>
        LET rk == Ranks IN
        \A j \in Positions :
            (Pinned(j) /\ FirstActive(rk, j)) => Pref(j) \in Cells

(***************************************************************************)
(* C9 (as stated): once the first loop has ended, the capacity warning has *)
(* been printed exactly when the list holds more than 64 active entries.   *)
(***************************************************************************)
C9_WarnIffOverCapacity ==
    Scanned => (warned <=> NumActive > PageSize)

(***************************************************************************)
(* C10 (as stated): with verbose on, copy_files ends as it does with       *)
(* verbose off: it raises only if the quiet run raises, and on completion  *)
(* the slot table and the destination files are those of the quiet run.    *)
(***************************************************************************)
QuietScan == ScanLoop(patch_files, FALSE, 1, ScanStart)
QuietFill == FillLoop(QuietScan.order, QuietScan.queue, 0)

C10_VerboseSameOutcome ==
    verbose =>
        /\ pc = "raised" => QuietScan.err # "none"
        /\ pc = "done" =>
              /\ patch_order = QuietFill.order
              /\ dest = WriteLoop(patch_files, QuietFill.order, {})

(***************************************************************************)
(* C3: merge_patch_files returns a list as long as the fresh list; the     *)
(* record at each position has the full_path of the fresh record there;    *)
(* where the override list has a record of that full_path, active and      *)
(* preferred_index are those of the override record (the last of them,     *)
(* should there be several) and not the fresh record's; and no record      *)
(* whose full_path is only in the override list is returned.               *)
(***************************************************************************)
LastSaved(p) ==
    override_patch_files[
        CHOOSE i \in 1 .. Len(override_patch_files) :
            /\ override_patch_files[i].full_path = p
            /\ \A h \in 1 .. Len(override_patch_files) :
                  override_patch_files[h].full_path = p => h <= i]
SavedPaths ==
    {override_patch_files[i].full_path : i \in 1 .. Len(override_patch_files)}
FreshPaths == {patch_files[i].full_path : i \in 1 .. Len(patch_files)}

C3_MergeIsOverride ==
    pc = "merged" =>
        /\ Len(merged) = Len(patch_files)
        /\ \A i \in 1 .. Len(patch_files) :
              /\ merged[i].full_path = patch_files[i].full_path
              /\ patch_files[i].full_path \in SavedPaths =>
                    /\ merged[i].active = LastSaved(patch_files[i].full_path).active
                    /\ merged[i].preferred_index
                           = LastSaved(patch_files[i].full_path).preferred_index
        /\ \A i \in 1 .. Len(merged) :
              merged[i].full_path \notin SavedPaths \ FreshPaths

\* a merge in which one fresh record took differing values from the override
\* list, another was kept, and an override record had no fresh counterpart
C3_Witness ==
    /\ pc = "merged"
    /\ \E i \in 1 .. Len(patch_files) :
          /\ patch_files[i].full_path \in SavedPaths
          /\ merged[i].active # patch_files[i].active
    /\ SavedPaths \ FreshPaths # {}
    /\ Len(merged) = 1

(***************************************************************************)
(* C5 (as stated, for an output config that is not the input config): when *)
(* the create_config command has ended and its output config existed       *)
(* before the run, the file was written only if the force flag was set or  *)
(* the user was asked and answered yes.                                    *)
(***************************************************************************)
C5_OverwriteNeedsConsent ==
    (/\ pc = "exited"
     /\ args.action = "create_config"
     /\ args.output_config # args.input_config
     /\ IsFile(fs0[args.output_config])
     /\ args.output_config \in written)
    => (args.force \/ (prompted /\ SaidYes(response)))

(***************************************************************************)
(* C6 (as stated): when the copy_files command has ended with exit code 1  *)
(* because the config is malformed or missing or the user declined the     *)
(* delete prompt, the destination directory holds the files it held before *)
(* the run.                                                                *)
(***************************************************************************)
C6_FailedCopyLeavesDest ==
    (/\ pc = "exited"
     /\ args.action = "copy_files"
     /\ exit_code = 1
     /\ err \in {"ParseError", "FileNotFoundError", "declined"})
    => dest = dest0

(***************************************************************************)
(* C8 (as stated): the dict returned by get_preferred_index_patches has a  *)
(* key k, for k in 0..63, exactly when some entry has preferred_index = k; *)
(* the value at a key is the list of the names of the entries with that    *)
(* preferred_index, in list order.                                         *)
(***************************************************************************)
RECURSIVE NamesWithPref(_, _)
NamesWithPref(k, i) ==
    IF i > Len(patch_files) THEN <<>>
    ELSE (IF patch_files[i].preferred_index = {k}
          THEN <<patch_files[i].name>> ELSE <<>>) \o NamesWithPref(k, i + 1)

C8_MapHasEveryPreferredSlot ==
    pc = "stats_done" =>
        /\ \A k \in Cells :
              k \in DOMAIN index_map
                  <=> \E i \in 1 .. Len(patch_files) :
                          patch_files[i].preferred_index = {k}
        /\ \A k \in DOMAIN index_map : index_map[k] = NamesWithPref(k, 1)

====
